---- MODULE Spec2Model ----
(***************************************************************************)
(* hover-docs: the hover provider of src/src/extension.ts.                 *)
(*                                                                         *)
(* Text is modelled character by character: a string is a sequence of      *)
(* one-character strings, a document is a sequence of such lines.  The     *)
(* regular expressions of the source are regex terms run by a backtracking *)
(* matcher that yields its matches in the priority order of the JavaScript *)
(* engine (greedy quantifiers, alternatives left to right), so that the    *)
(* capture groups are the ones String.prototype.match returns.             *)
(***************************************************************************)
EXTENDS Integers, Sequences, FiniteSets, TLC

\* ---------------------------------------------------------------- text

Lower == {"a","b","c","d","e","f","g","h","i","j","k","l","m",
          "n","o","p","q","r","s","t","u","v","w","x","y","z"}
Upper == {"A","B","D","E","L","N","S","T"}
Digit == {"0","1","2","3","4","5","6","7","8","9"}
\* \w
WordChars == Lower \cup Upper \cup Digit \cup {"_"}
\* \s (the documents of the model hold blanks and tabs only)
SpaceChars == {" ", "\t"}
Punct == {"*","&","<",">",":",";","/","=","[","]","#","\"",".","{","}",","}
\* every character a line of the model can hold; lineAt(i).text never holds a
\* line terminator, so "." of a regular expression is the whole alphabet
AnyChar == WordChars \cup SpaceChars \cup Punct

\* s.substring(from - 1, to - 1) on a 1-based half-open range [from, to)
Sub(s, from, to) == [i \in 1..(to - from) |-> s[from + i - 1]]

\* String.prototype.trim
TrimStart(s) ==
    IF \A i \in 1..Len(s) : s[i] \in SpaceChars THEN <<>>
    ELSE LET f == CHOOSE i \in 1..Len(s) :
                     /\ s[i] \notin SpaceChars
                     /\ \A j \in 1..(i - 1) : s[j] \in SpaceChars
         IN  Sub(s, f, Len(s) + 1)
TrimEnd(s) ==
    IF \A i \in 1..Len(s) : s[i] \in SpaceChars THEN <<>>
    ELSE LET l == CHOOSE i \in 1..Len(s) :
                     /\ s[i] \notin SpaceChars
                     /\ \A j \in (i + 1)..Len(s) : s[j] \in SpaceChars
         IN  Sub(s, 1, l + 1)
Trim(s) == TrimEnd(TrimStart(s))

\* sub occurs in s at the 1-based index p
OccursAt(s, sub, p) ==
    /\ p >= 1
    /\ p + Len(sub) - 1 <= Len(s)
    /\ \A k \in 1..Len(sub) : s[p + k - 1] = sub[k]

\* String.prototype.indexOf(sub, from) with 0-based indices, -1 when absent
IndexOf(s, sub, from) ==
    LET hits == {p \in (from + 1)..(Len(s) + 1) : OccursAt(s, sub, p)}
    IN  IF hits = {} THEN -1
        ELSE (CHOOSE p \in hits : \A q \in hits : p <= q) - 1

\* ---------------------------------------------------------------- regex terms

Chr(cs) == [t |-> "set", cs |-> cs]
Cat(rs) == [t |-> "cat", rs |-> rs]
Alt(rs) == [t |-> "alt", rs |-> rs]
Star(r) == [t |-> "star", r |-> r]
Grp(n, r) == [t |-> "grp", n |-> n, r |-> r]
Bol == [t |-> "bol"]
Eol == [t |-> "eol"]
Eps == Cat(<<>>)
Opt(r) == Alt(<<r, Eps>>)
Plus(r) == Cat(<<r, Star(r)>>)
Lit(s) == Cat([i \in 1..Len(s) |-> Chr({s[i]})])

NGroups == 4
NoCaps == [g \in 1..NGroups |-> <<>>]

RECURSIVE Run(_, _, _)
RECURSIVE RunCat(_, _, _, _)
RECURSIVE RunAlt(_, _, _, _)
RECURSIVE RunEach(_, _, _, _)
RECURSIVE RunStar(_, _, _, _, _)

\* the matches of r on s from the match state m = [pos, caps], most preferred
\* first: the order in which a backtracking engine tries them
Run(r, s, m) ==
    CASE r.t = "set" ->
            IF m.pos <= Len(s) /\ s[m.pos] \in r.cs
            THEN <<[m EXCEPT !.pos = @ + 1]>> ELSE <<>>
      [] r.t = "bol" -> IF m.pos = 1 THEN <<m>> ELSE <<>>
      [] r.t = "eol" -> IF m.pos = Len(s) + 1 THEN <<m>> ELSE <<>>
      [] r.t = "cat" -> RunCat(r.rs, 1, s, <<m>>)
      [] r.t = "alt" -> RunAlt(r.rs, 1, s, m)
      [] r.t = "star" -> RunStar(r.r, s, m, Run(r.r, s, m), 1)
      [] r.t = "grp" ->
            LET inner == Run(r.r, s, m)
            IN  [i \in 1..Len(inner) |->
                    [inner[i] EXCEPT !.caps[r.n] = <<m.pos, inner[i].pos>>]]

\* rs[k], rs[k+1], ... in sequence, from each of the match states ms in turn
RunCat(rs, k, s, ms) ==
    IF k > Len(rs) \/ ms = <<>> THEN ms
    ELSE RunCat(rs, k + 1, s, RunEach(rs[k], s, ms, 1))

\* r from each of the match states ms[i], ms[i+1], ..., in that order
RunEach(r, s, ms, i) ==
    IF i > Len(ms) THEN <<>>
    ELSE Run(r, s, ms[i]) \o RunEach(r, s, ms, i + 1)

RunAlt(rs, k, s, m) ==
    IF k > Len(rs) THEN <<>>
    ELSE Run(rs[k], s, m) \o RunAlt(rs, k + 1, s, m)

\* greedy r*: one more iteration first (an iteration that consumes nothing is
\* rejected), zero further iterations last
RunStar(r, s, m, once, i) ==
    IF i > Len(once) THEN <<m>>
    ELSE (IF once[i].pos > m.pos
          THEN RunStar(r, s, once[i], Run(r, s, once[i]), 1)
          ELSE <<>>)
         \o RunStar(r, s, m, once, i + 1)

NoMatch == [matched |-> FALSE]

RECURSIVE ExecFrom(_, _, _)
ExecFrom(r, s, p) ==
    IF p > Len(s) + 1 THEN NoMatch
    ELSE LET ms == Run(r, s, [pos |-> p, caps |-> NoCaps])
         IN  IF ms # <<>>
             THEN [matched |-> TRUE, index |-> p, end |-> ms[1].pos,
                   caps |-> ms[1].caps]
             ELSE ExecFrom(r, s, p + 1)

\* RegExp.prototype.exec / String.prototype.match without the g flag: the
\* leftmost match, and at that index the most preferred one
Exec(r, s) == ExecFrom(r, s, 1)
\* RegExp.prototype.test
Test(r, s) == Exec(r, s).matched
\* match[g]: the text of group g, <<>> standing for undefined as well as ''
Group(s, x, g) ==
    IF x.caps[g] = <<>> THEN <<>> ELSE Sub(s, x.caps[g][1], x.caps[g][2])
\* match[g] !== undefined
HasGroup(x, g) == x.caps[g] # <<>>

\* ---------------------------------------------------------------- the source's regular expressions

WS == Chr(SpaceChars)
QUALIFIERS ==
    Alt(<<Lit(<<"c","o","n","s","t">>), Lit(<<"s","t","a","t","i","c">>),
          Lit(<<"v","o","l","a","t","i","l","e">>),
          Lit(<<"u","n","s","i","g","n","e","d">>),
          Lit(<<"s","i","g","n","e","d">>), Lit(<<"l","o","n","g">>),
          Lit(<<"s","h","o","r","t">>), Lit(<<"s","t","r","u","c","t">>),
          Lit(<<"e","n","u","m">>), Lit(<<"c","l","a","s","s">>),
          Lit(<<"t","y","p","e","n","a","m","e">>)>>)
\* [\w\*&<>:]
TypeChars == WordChars \cup {"*", "&", "<", ">", ":"}
\* [\w\*&<>:]+(?:\s*<[^>]*>)?(?:\s*\*)*
TYPE_PATTERN ==
    Cat(<<Plus(Chr(TypeChars)),
          Opt(Cat(<<Star(WS), Chr({"<"}), Star(Chr(AnyChar \ {">"})), Chr({">"})>>)),
          Star(Cat(<<Star(WS), Chr({"*"})>>))>>)
\* \s*\[[^\]]*\]
ARRAY_PATTERN ==
    Cat(<<Star(WS), Chr({"["}), Star(Chr(AnyChar \ {"]"})), Chr({"]"})>>)

\* the regular expression built for the hovered word: the word is spliced into
\* the pattern text, and a word of word characters is a literal there
VARIABLE_DEFINITION_REGEX(varName) ==
    Cat(<<Bol, Star(WS),
          Star(Cat(<<QUALIFIERS, Plus(WS)>>)),
          Grp(1, TYPE_PATTERN),
          Plus(WS),
          Grp(2, Lit(varName)),
          Opt(Grp(3, ARRAY_PATTERN)),
          Star(WS), Opt(Cat(<<Chr({"="}), Plus(Chr(AnyChar \ {";"}))>>)),
          Star(WS), Chr({";"}),
          Opt(Cat(<<Star(WS), Chr({"/"}), Chr({"/"}), Star(WS),
                    Grp(4, Star(Chr(AnyChar)))>>)),
          Star(WS), Eol>>)

LIKELY_DEFINITION_REGEX ==
    Cat(<<Bol, Star(WS),
          Star(Cat(<<QUALIFIERS, Plus(WS)>>)),
          TYPE_PATTERN,
          Plus(WS),
          Plus(Chr(WordChars)),
          Opt(ARRAY_PATTERN),
          Star(WS), Opt(Cat(<<Chr({"="}), Star(Chr(AnyChar))>>)),
          Chr({";"})>>)

\* /^\s*\/\*/
BLOCK_COMMENT_START_REGEX == Cat(<<Bol, Star(WS), Chr({"/"}), Chr({"*"})>>)
\* /\*\/$/
BLOCK_COMMENT_END_REGEX == Cat(<<Chr({"*"}), Chr({"/"}), Eol>>)

\* ---------------------------------------------------------------- the texts of the model

\* (an empty line)
L_blank == <<>>
\* int a; // A
L_declA == <<"i","n","t"," ","a",";"," ","/","/"," ","A">>
\* char a;
L_declA2 == <<"c","h","a","r"," ","a",";">>
\* a = 1;
L_useA == <<"a"," ","="," ","1",";">>
\* int b; // B
L_declB == <<"i","n","t"," ","b",";"," ","/","/"," ","B">>
\* b = 1;
L_useB == <<"b"," ","="," ","1",";">>
\* /* g */
L_group == <<"/","*"," ","g"," ","*","/">>
\* /** foo
L_open == <<"/","*","*"," ","f","o","o">>
\*  * bar
L_mid == <<" ","*"," ","b","a","r">>
\*  */
L_close == <<" ","*","/">>
\* #include "header.h"
L_incHeader == <<"#","i","n","c","l","u","d","e"," ","\"","h","e","a","d","e","r",".","h","\"">>
\* #include "util.h"
L_incUtil == <<"#","i","n","c","l","u","d","e"," ","\"","u","t","i","l",".","h","\"">>
\* #include "lib/util.h"
L_incLibUtil == <<"#","i","n","c","l","u","d","e"," ","\"","l","i","b","/","u","t","i","l",".","h","\"">>
\* #include <stdio.h>
L_incSys == <<"#","i","n","c","l","u","d","e"," ","<","s","t","d","i","o",".","h",">">>
\* mst.ex1 = 7;
L_useMst == <<"m","s","t",".","e","x","1"," ","="," ","7",";">>
\* struct myStruct {
L_struct == <<"s","t","r","u","c","t"," ","m","y","S","t","r","u","c","t"," ","{">>
\*     int ex1;        // Example 1
L_ex1 == <<" "," "," "," ","i","n","t"," ","e","x","1",";"," "," "," "," "," "," "," "," ","/","/"," ","E","x","a","m","p","l","e"," ","1">>
\* } mst;
L_mst == <<"}"," ","m","s","t",";">>
\* long ex1; // L
L_longEx1 == <<"l","o","n","g"," ","e","x","1",";"," ","/","/"," ","L">>
\* char ex1;
L_charEx1 == <<"c","h","a","r"," ","e","x","1",";">>
\* char n;
L_charN == <<"c","h","a","r"," ","n",";">>

\* ---------------------------------------------------------------- constants of the source

MAX_LINES_TO_SCAN_UP == 100
MAX_BLOCK_COMMENT_LINES == 50
MAX_FILES_TO_SEARCH == 20

\* how far the documents of the model reach beyond the two line caps
Slack == 1

Max(a, b) == IF a >= b THEN a ELSE b
Min(a, b) == IF a <= b THEN a ELSE b
Undefined == [defined |-> FALSE]
\* n copies of the line l
Rep(l, n) == [i \in 1..n |-> l]

\* ---------------------------------------------------------------- the workspace

\* the files of the workspace folder, by workspace-relative path
HeaderFiles == {"header.h", "a/util.h", "b/util.h"}
\* further source files of the workspace, none of them a header
Parts == <<"p01.c", "p02.c", "p03.c", "p04.c", "p05.c", "p06.c", "p07.c",
           "p08.c", "p09.c", "p10.c", "p11.c", "p12.c", "p13.c", "p14.c",
           "p15.c", "p16.c", "p17.c", "p18.c", "p19.c", "p20.c">>
PartFiles == {Parts[i] : i \in 1..Len(Parts)}
WorkspaceFiles == HeaderFiles \cup {"main.c", "node_modules/x/dep.h"} \cup PartFiles

\* the path of the n-th further source file: p, two digits, .c
PartPath(n) ==
    LET digits == <<"0","1","2","3","4","5","6","7","8","9">>
    IN  <<"p", digits[(n \div 10) + 1], digits[(n % 10) + 1], ".", "c">>

\* uri.fsPath below the workspace folder
FsPath(f) ==
    CASE f = "header.h" -> <<"h","e","a","d","e","r",".","h">>
      [] f = "a/util.h" -> <<"a","/","u","t","i","l",".","h">>
      [] f = "b/util.h" -> <<"b","/","u","t","i","l",".","h">>
      [] f = "main.c" -> <<"m","a","i","n",".","c">>
      [] f = "node_modules/x/dep.h" ->
            <<"n","o","d","e","_","m","o","d","u","l","e","s","/","x","/",
              "d","e","p",".","h">>
      [] f \in PartFiles -> PartPath(CHOOSE n \in 1..Len(Parts) : Parts[n] = f)

\* what is on disk for the files other than the one in the editor
DiskText(f) ==
    CASE f = "header.h" -> <<L_struct, L_ex1, L_mst>>
      [] f = "a/util.h" -> <<L_group, L_longEx1, L_charEx1>>
      [] f = "b/util.h" -> <<L_charN>>
      [] f = "node_modules/x/dep.h" -> <<L_charEx1>>
      [] OTHER -> <<L_blank>>

\* path.basename of a path without a trailing separator
Basename(path) ==
    LET seps == {i \in 1..Len(path) : path[i] = "/"}
    IN  IF seps = {} THEN path
        ELSE Sub(path, (CHOOSE i \in seps : \A j \in seps : j <= i) + 1, Len(path) + 1)

EndsWith(s, suffix) == OccursAt(s, suffix, Len(s) - Len(suffix) + 1)

\* the exclude glob **/node_modules/**
InNodeModules(f) ==
    \/ OccursAt(FsPath(f), <<"n","o","d","e","_","m","o","d","u","l","e","s","/">>, 1)
    \/ IndexOf(FsPath(f), <<"/","n","o","d","e","_","m","o","d","u","l","e","s","/">>, 0) # -1

\* the files the glob **/<fileName> selects
GlobByName(fileName) ==
    {f \in WorkspaceFiles : Basename(FsPath(f)) = fileName /\ ~InNodeModules(f)}
\* the files the glob **/*.{h,hpp} selects
GlobHeaders ==
    {f \in WorkspaceFiles :
        /\ \/ EndsWith(Basename(FsPath(f)), <<".","h">>)
           \/ EndsWith(Basename(FsPath(f)), <<".","h","p","p">>)
        /\ ~InNodeModules(f)}

\* workspace.findFiles(include, exclude, maxResults): at most maxResults of the
\* selected files, in an order the host does not specify
FindFiles(selected, maxResults) ==
    LET k == Min(maxResults, Cardinality(selected))
    IN  {q \in [1..k -> selected] : \A i, j \in 1..k : q[i] = q[j] => i = j}

\* ---------------------------------------------------------------- the documents in the editor

\* int a; /* A */
L_declAc == <<"i","n","t"," ","a",";"," ","/","*"," ","A"," ","*","/">>
\* /* */
L_empty == <<"/","*"," ","*","/">>

\* blank lines between a declaration at line 0 and the hover line
Gaps == {0} \cup ((MAX_LINES_TO_SCAN_UP - 2)..(MAX_LINES_TO_SCAN_UP - 1 + Slack))

\* a declaration of a (or nothing) at line 0, a gap, perhaps a nearer
\* declaration, the hovered use of a, perhaps a declaration below it
WindowDocs ==
    {[lines |-> <<top>> \o Rep(L_blank, g) \o near \o <<L_useA>> \o below,
      hover |-> {<<1 + g + Len(near), 0>>, <<1 + g + Len(near), 2>>}] :
        top \in {L_blank, L_declA}, g \in Gaps,
        near \in {<<>>, <<L_declA2>>}, below \in {<<>>, <<L_declA>>}}

\* the block comments of the model: none, one line, the three lines of the
\* example, an empty one, comments around MAX_BLOCK_COMMENT_LINES lines long,
\* and comment ends whose start is missing
Comments ==
    {<<>>, <<L_group>>, <<L_open, L_mid, L_close>>, <<L_empty>>,
     <<L_close>>, <<L_mid, L_close>>,
     Rep(L_mid, MAX_BLOCK_COMMENT_LINES + Slack) \o <<L_close>>}
    \cup {<<L_open>> \o Rep(L_mid, n) \o <<L_close>> :
            n \in (MAX_BLOCK_COMMENT_LINES - 3)..(MAX_BLOCK_COMMENT_LINES - 2 + Slack)}

\* a comment, perhaps a line between it and the declaration of b (a sibling
\* declaration, with a line comment or a trailing block comment, or an empty
\* line), the declaration of b and a use of it
CommentDocs ==
    {[lines |-> c \o sib \o <<L_declB, L_useB>>,
      hover |-> {<<Len(c) + Len(sib), 4>>, <<Len(c) + Len(sib) + 1, 0>>}
                \cup (IF sib = <<L_declA>> THEN {<<Len(c), 4>>} ELSE {})] :
        c \in Comments, sib \in {<<>>, <<L_declA>>, <<L_declAc>>, <<L_blank>>}}

\* include directives and the use of a member that only headers declare
IncludeDocs ==
    {[lines |-> inc \o <<L_useMst>>,
      hover |-> {<<Len(inc), 0>>, <<Len(inc), 4>>, <<Len(inc), 8>>, <<Len(inc), 10>>}] :
        inc \in {<<>>, <<L_incHeader>>, <<L_incUtil>>, <<L_incSys>>,
                 <<L_incUtil, L_incHeader>>, <<L_incHeader, L_incUtil>>,
                 <<L_incSys, L_incHeader>>, <<L_incLibUtil, L_incUtil>>}}

\* documents that are themselves headers of the workspace: a use of a with its
\* declaration right above it, below it, or above the scanned window
HeaderDocs ==
    {[lines |-> <<L_declA, L_useA>>, hover |-> {<<1, 0>>}],
     [lines |-> <<L_useA, L_declA>>, hover |-> {<<0, 0>>}],
     [lines |-> <<L_declA>> \o Rep(L_blank, MAX_LINES_TO_SCAN_UP - 1 + Slack)
                    \o <<L_useA>>,
      hover |-> {<<MAX_LINES_TO_SCAN_UP + Slack, 0>>}]}

Scenarios == WindowDocs \cup CommentDocs \cup IncludeDocs \cup HeaderDocs

\* where the hovered document is: main.c of the workspace folder; for the
\* documents with include directives also a file outside every workspace
\* folder; for the header documents the header b/util.h of the workspace
PathsOf(sc) ==
    IF sc \in HeaderDocs THEN {"b/util.h"}
    ELSE IF sc \in IncludeDocs THEN {"main.c", "scratch.c"}
    ELSE {"main.c"}

\* ---------------------------------------------------------------- state

VARIABLES
    document,            \* the document hovered in: [path, lines]
    position,            \* the hover position: [line, character]
    token,               \* token.isCancellationRequested
    cancelledAt,         \* where provideHover stood when the signal was raised
    pc,                  \* where provideHover stands
    hoveredWord,
    lineIdx, endLine,    \* findDefinitionInDocument's loop
    definitionInfo, sourceDocument, blockComment,
    commentLines, currentCommentLine, searchLines,  \* findBlockComment's loop
    includedFiles, incIdx, potentialFiles,          \* findPotentialHeaderFiles
    headerIdx,           \* the position of provideHover's loop in headerFiles
    opened,              \* the openTextDocument calls so far: [file, ok]
    result               \* what provideHover returned

vars == <<document, position, token, cancelledAt, pc, hoveredWord, lineIdx, endLine,
          definitionInfo, sourceDocument, blockComment, commentLines,
          currentCommentLine, searchLines, includedFiles, incIdx,
          potentialFiles, headerIdx, opened, result>>

\* the text of a workspace file: the editor's buffer for the hovered document
TextOf(f) == IF f = document.path THEN document.lines ELSE DiskText(f)
\* document.lineAt(i).text, 0-based
LineAt(f, i) == TextOf(f)[i + 1]
LineCount(f) == Len(TextOf(f))

Fresh ==
    /\ token = FALSE
    /\ cancelledAt = "never"
    /\ lineIdx = 0 /\ endLine = 0
    /\ definitionInfo = Undefined
    /\ sourceDocument = document.path
    /\ blockComment = Undefined
    /\ currentCommentLine = 0 /\ searchLines = 0
    /\ includedFiles = <<>> /\ incIdx = 1 /\ potentialFiles = <<>>
    /\ headerIdx = 1
    /\ opened = <<>>
    /\ result = Undefined

\* a document of the model in the editor, hovered at one of its positions
Init ==
    /\ \E sc \in Scenarios :
        /\ \E p \in PathsOf(sc) : document = [path |-> p, lines |-> sc.lines]
        /\ \E h \in sc.hover : position = [line |-> h[1], character |-> h[2]]
    /\ pc = "start"
    /\ hoveredWord = <<>>
    /\ commentLines = <<>>
    /\ Fresh

\* ---------------------------------------------------------------- the helpers of the source

\* s.replace(r, ''): the first match of r is cut out
Remove(r, s) ==
    LET x == Exec(r, s)
    IN  IF x.matched THEN Sub(s, 1, x.index) \o Sub(s, x.end, Len(s) + 1) ELSE s

RECURSIVE Join(_)
\* lines.join('\n')
Join(ls) ==
    IF ls = <<>> THEN <<>>
    ELSE IF Len(ls) = 1 THEN ls[1]
    ELSE ls[1] \o <<"\n">> \o Join(Tail(ls))

\* the callback of lines.map in cleanBlockComment
CleanLine(lines, index) ==
    LET trimmed == Trim(lines[index])
        \* /^\/\*+/
        a == IF index = 1
             THEN Remove(Cat(<<Bol, Chr({"/"}), Plus(Chr({"*"}))>>), trimmed)
             ELSE trimmed
        \* /\*+\/$/
        b == IF index = Len(lines)
             THEN Remove(Cat(<<Plus(Chr({"*"})), Chr({"/"}), Eol>>), a)
             ELSE a
        \* /^\s*\*/
        c == Remove(Cat(<<Bol, Star(WS), Chr({"*"})>>), b)
    IN  Trim(c)

\* no line is dropped
KeepLine_All(line) == TRUE

\* the filter of cleanBlockComment
KeepLine(line) == Len(line) > 0

cleanBlockComment(lines) ==
    IF Len(lines) = 0 THEN <<>>
    ELSE Join(SelectSeq([i \in 1..Len(lines) |-> CleanLine(lines, i)], KeepLine))

\* document.getText(document.getWordRangeAtPosition(position)) on a line: the
\* run of word characters that holds or touches the column, <<>> when there is none
WordAt(text, character) ==
    LET runs == {se \in (0..Len(text)) \X (0..Len(text)) :
                    /\ se[1] < se[2]
                    /\ se[1] <= character /\ character <= se[2]
                    /\ \A i \in (se[1] + 1)..se[2] : text[i] \in WordChars
                    /\ (se[1] = 0 \/ text[se[1]] \notin WordChars)
                    /\ (se[2] = Len(text) \/ text[se[2] + 1] \notin WordChars)}
    IN  IF runs = {} THEN <<>>
        ELSE LET se == CHOOSE x \in runs : \A y \in runs : x[1] <= y[1]
             IN  Sub(text, se[1] + 1, se[2] + 1)

\* /^\d+$/.test(word)
IsNumber(word) == Len(word) > 0 /\ \A i \in 1..Len(word) : word[i] \in Digit

\* the body of the loop of findDefinitionInDocument on one line
MatchDefinition(lineText, word, idx) ==
    LET match == Exec(VARIABLE_DEFINITION_REGEX(word), lineText)
    IN  IF ~match.matched THEN Undefined
        ELSE LET varNameInMatch == Group(lineText, match, 2)
                 typeInMatch == Trim(Group(lineText, match, 1))
                 arrayBrackets == Group(lineText, match, 3)
                 \* undefined and '' are both <<>>: only the truth of the
                 \* comment is ever read
                 commentInMatch == Trim(Group(lineText, match, 4))
                 nameStartIndex ==
                    IndexOf(lineText, varNameInMatch,
                            IF Len(typeInMatch) > 0
                            THEN IndexOf(lineText, typeInMatch, 0) + Len(typeInMatch)
                            ELSE 0)
             IN  IF nameStartIndex # -1
                 THEN [defined |-> TRUE,
                       lineNum |-> idx,
                       varType |-> typeInMatch \o arrayBrackets,
                       lineComment |-> commentInMatch,
                       range |-> <<idx, nameStartIndex,
                                   idx, nameStartIndex + Len(varNameInMatch)>>]
                 ELSE Undefined

\* the scan starts one line too far up
ScanStart_OneMore(line) == Max(0, line - (MAX_LINES_TO_SCAN_UP + 1))

\* the first line of the scan of the hovered document
ScanStart(line) == Max(0, line - MAX_LINES_TO_SCAN_UP)

\* one turn of the loop of findDefinitionInDocument on the file f: the loop
\* returns (ret, with info) or goes on to the next line
ScanStep(f) ==
    IF token THEN [ret |-> TRUE, info |-> Undefined]
    ELSE LET d == MatchDefinition(LineAt(f, lineIdx), hoveredWord, lineIdx)
         IN  IF d.defined THEN [ret |-> TRUE, info |-> d]
             ELSE IF lineIdx + 1 <= endLine THEN [ret |-> FALSE, info |-> Undefined]
             ELSE [ret |-> TRUE, info |-> Undefined]

\* the sequence check is left out
IsFirstInSequence_Always(f, definitionLineNum) == TRUE

\* the sequence check of findBlockComment
IsFirstInSequence(f, definitionLineNum) ==
    ~(/\ definitionLineNum > 0
      /\ Test(LIKELY_DEFINITION_REGEX, Trim(LineAt(f, definitionLineNum - 1))))

\* the walk reads one line more than the cap
WalkContinues_OneMore(current, searched) ==
    current >= 0 /\ searched <= MAX_BLOCK_COMMENT_LINES

\* the condition of the while loop of findBlockComment
WalkContinues(current, searched) ==
    current >= 0 /\ searched < MAX_BLOCK_COMMENT_LINES

\* /^\s*#include\s+[<"]([^>"]+)[>"].*$/
INCLUDE_REGEX ==
    Cat(<<Bol, Star(WS),
          Lit(<<"#","i","n","c","l","u","d","e">>), Plus(WS),
          Chr({"<", "\""}), Grp(1, Plus(Chr(AnyChar \ {">", "\""}))), Chr({">", "\""}),
          Star(Chr(AnyChar)), Eol>>)

\* the lines the include pattern matches with a non-empty path
IsIncludeLine(line) ==
    LET match == Exec(INCLUDE_REGEX, line)
    IN  match.matched /\ Group(line, match, 1) # <<>>
IncludePath(line) == Group(line, Exec(INCLUDE_REGEX, line), 1)

\* vscode.workspace.getWorkspaceFolder(document.uri)
HasWorkspaceFolder(doc) == doc.path \in WorkspaceFiles

findIncludedFiles(doc) ==
    IF ~HasWorkspaceFolder(doc) THEN <<>>
    ELSE LET hits == SelectSeq(doc.lines, IsIncludeLine)
         IN  [i \in 1..Len(hits) |-> IncludePath(hits[i])]

\* a failure to open ends the loop over the candidates
AfterOpenError_Abort(idx) == Len(potentialFiles) + 1

\* the catch block of the loop over the candidates: the loop goes on with the
\* candidate after the one that failed to open
AfterOpenError(idx) == idx + 1

\* the header sweep put before the files found for the include directives
AppendNew_SweepFirst(files, more) ==
    more \o SelectSeq(files, LAMBDA f : \A i \in 1..Len(more) : more[i] # f)

RECURSIVE AppendNew(_, _)
\* the header files not already in the list, appended in their order
AppendNew(files, more) ==
    IF more = <<>> THEN files
    ELSE AppendNew(IF \E i \in 1..Len(files) : files[i] = more[1]
                   THEN files ELSE Append(files, more[1]),
                   Tail(more))

\* the declaration is taken for one of the hovered document
IsCrossFile_Never(doc, src) == FALSE

\* sourceDocument.uri.fsPath !== document.uri.fsPath
IsCrossFile(doc, src) == src # doc.path

\* only a block comment counts as content added before the type
ContentAdded_BlockOnly(crossFile, hasBlock) == hasBlock

\* contentAdded when the type is reached: a section was appended before it
ContentAdded(crossFile, hasBlock) == crossFile \/ hasBlock

\* the construction of the hover content in provideHover
Assemble(doc, src, info, block) ==
    LET crossFile == IsCrossFile(doc, src)
        hasBlock == block.defined /\ block.text # <<>>
        fileSection ==
            IF crossFile THEN <<[kind |-> "definedIn", file |-> src]>> ELSE <<>>
        blockSection ==
            IF hasBlock
            THEN (IF crossFile THEN <<[kind |-> "newline"]>> ELSE <<>>)
                 \o <<[kind |-> "markdown", text |-> block.text]>>
            ELSE <<>>
        typeSection ==
            IF info.varType # <<>>
            THEN (IF ContentAdded(crossFile, hasBlock)
                  THEN <<[kind |-> "separator"]>> ELSE <<>>)
                 \o <<[kind |-> "codeblock", text |-> info.varType]>>
                 \o (IF info.lineComment # <<>>
                     THEN <<[kind |-> "text", text |-> info.lineComment]>> ELSE <<>>)
            ELSE <<>>
        contentAdded == crossFile \/ hasBlock \/ info.varType # <<>>
    IN  IF contentAdded
        THEN [defined |-> TRUE,
              contents |-> fileSection \o blockSection \o typeSection,
              range |-> info.range]
        ELSE Undefined

\* ---------------------------------------------------------------- provideHover, step by step
\* A step runs from one read of the cancellation token, or one await, to
\* the next.

\* provideHover returns res
Return(res) == result' = res /\ pc' = "done"

\* findBlockComment has returned block: the rest of provideHover
ReturnHover(block) ==
    /\ blockComment' = block
    /\ Return(Assemble(document, sourceDocument, definitionInfo, block))

\* the word under the cursor, and the set-up of the scan of the hovered document
HoverStart ==
    /\ pc = "start"
    /\ LET word == WordAt(LineAt(document.path, position.line), position.character)
       IN  IF word = <<>> \/ IsNumber(word)
           THEN /\ Return(Undefined)
                /\ UNCHANGED <<hoveredWord, lineIdx, endLine>>
           ELSE /\ hoveredWord' = word
                /\ lineIdx' = ScanStart(position.line)
                /\ endLine' = position.line
                /\ pc' = "scanLocal"
                /\ UNCHANGED result
    /\ UNCHANGED <<document, position, token, cancelledAt, definitionInfo, sourceDocument,
                   blockComment, commentLines, currentCommentLine, searchLines,
                   includedFiles, incIdx, potentialFiles, headerIdx, opened>>

\* one line of findDefinitionInDocument on the hovered document; the locals of
\* the loop are gone (reset) when it returns
ScanLocal ==
    /\ pc = "scanLocal"
    /\ LET step == ScanStep(document.path)
       IN  IF ~step.ret
           THEN /\ lineIdx' = lineIdx + 1
                /\ UNCHANGED <<pc, definitionInfo, endLine>>
           ELSE /\ definitionInfo' = step.info
                /\ pc' = IF step.info.defined THEN "blockComment" ELSE "crossFile"
                /\ lineIdx' = 0 /\ endLine' = 0
    /\ UNCHANGED <<document, position, token, cancelledAt, hoveredWord, sourceDocument,
                   blockComment, commentLines, currentCommentLine, searchLines,
                   includedFiles, incIdx, potentialFiles, headerIdx, opened, result>>

\* findPotentialHeaderFiles up to its first await
CrossFile ==
    /\ pc = "crossFile"
    /\ IF ~HasWorkspaceFolder(document)
       THEN \* no candidates, the loop over them is empty, nothing was found
            /\ Return(Undefined)
            /\ UNCHANGED <<includedFiles, incIdx, potentialFiles>>
       ELSE /\ includedFiles' = findIncludedFiles(document)
            /\ incIdx' = 1
            /\ potentialFiles' = <<>>
            /\ pc' = "findFiles"
            /\ UNCHANGED result
    /\ UNCHANGED <<document, position, token, cancelledAt, hoveredWord, lineIdx, endLine,
                   definitionInfo, sourceDocument, blockComment, commentLines,
                   currentCommentLine, searchLines, headerIdx, opened>>

\* await findFiles for one include directive
FindFilesInclude ==
    /\ pc = "findFiles"
    /\ incIdx <= Len(includedFiles)
    /\ \E fileMatches \in FindFiles(GlobByName(Basename(includedFiles[incIdx])),
                                    MAX_FILES_TO_SEARCH) :
          potentialFiles' = potentialFiles \o fileMatches
    /\ incIdx' = incIdx + 1
    /\ UNCHANGED <<document, position, token, cancelledAt, pc, hoveredWord, lineIdx, endLine,
                   definitionInfo, sourceDocument, blockComment, commentLines,
                   currentCommentLine, searchLines, includedFiles, headerIdx,
                   opened, result>>

\* await findFiles for the header sweep, and the return of the candidates
FindFilesSweep ==
    /\ pc = "findFiles"
    /\ incIdx > Len(includedFiles)
    /\ \E headerFiles \in FindFiles(GlobHeaders, MAX_FILES_TO_SEARCH) :
          potentialFiles' = AppendNew(potentialFiles, headerFiles)
    /\ headerIdx' = 1
    /\ pc' = "headerLoop"
    /\ UNCHANGED <<document, position, token, cancelledAt, hoveredWord, lineIdx, endLine,
                   definitionInfo, sourceDocument, blockComment, commentLines,
                   currentCommentLine, searchLines, includedFiles, incIdx,
                   opened, result>>

\* the head of the loop over the candidates and await openTextDocument, which
\* fails or yields the document
HeaderLoop ==
    /\ pc = "headerLoop"
    /\ IF headerIdx > Len(potentialFiles) \/ token
       THEN \* the loop is over with nothing found, or the request is cancelled
            /\ Return(Undefined)
            /\ UNCHANGED <<lineIdx, endLine, headerIdx, opened>>
       ELSE \E ok \in BOOLEAN :
            /\ opened' = Append(opened, [file |-> potentialFiles[headerIdx], ok |-> ok])
            /\ IF ok
               THEN /\ lineIdx' = 0
                    /\ endLine' = LineCount(potentialFiles[headerIdx]) - 1
                    /\ pc' = "scanHeader"
                    /\ UNCHANGED headerIdx
               ELSE \* caught and logged, on to the next candidate
                    /\ headerIdx' = AfterOpenError(headerIdx)
                    /\ UNCHANGED <<lineIdx, endLine, pc>>
            /\ UNCHANGED result
    /\ UNCHANGED <<document, position, token, cancelledAt, hoveredWord, definitionInfo,
                   sourceDocument, blockComment, commentLines, currentCommentLine,
                   searchLines, includedFiles, incIdx, potentialFiles>>

\* one line of findDefinitionInDocument on the opened candidate
ScanHeader ==
    /\ pc = "scanHeader"
    /\ LET step == ScanStep(potentialFiles[headerIdx])
       IN  IF ~step.ret
           THEN /\ lineIdx' = lineIdx + 1
                /\ UNCHANGED <<pc, definitionInfo, sourceDocument, headerIdx, endLine>>
           ELSE IF step.info.defined
           THEN /\ definitionInfo' = step.info
                /\ sourceDocument' = potentialFiles[headerIdx]
                /\ pc' = "blockComment"
                /\ lineIdx' = 0 /\ endLine' = 0
                /\ UNCHANGED headerIdx
           ELSE /\ headerIdx' = headerIdx + 1
                /\ pc' = "headerLoop"
                /\ lineIdx' = 0 /\ endLine' = 0
                /\ UNCHANGED <<definitionInfo, sourceDocument>>
    /\ UNCHANGED <<document, position, token, cancelledAt, hoveredWord, blockComment,
                   commentLines, currentCommentLine, searchLines, includedFiles,
                   incIdx, potentialFiles, opened, result>>

\* findBlockComment up to its loop
BlockComment ==
    /\ pc = "blockComment"
    /\ LET definitionLineNum == definitionInfo.lineNum
       IN  IF ~IsFirstInSequence(sourceDocument, definitionLineNum)
              \/ definitionLineNum <= 0
           THEN /\ ReturnHover(Undefined)
                /\ UNCHANGED <<commentLines, currentCommentLine, searchLines>>
           ELSE IF Test(BLOCK_COMMENT_END_REGEX,
                        Trim(LineAt(sourceDocument, definitionLineNum - 1)))
           THEN /\ commentLines' = <<>>
                /\ currentCommentLine' = definitionLineNum - 1
                /\ searchLines' = 0
                /\ pc' = "walk"
                /\ UNCHANGED <<blockComment, result>>
           ELSE /\ ReturnHover(Undefined)
                /\ UNCHANGED <<commentLines, currentCommentLine, searchLines>>
    /\ UNCHANGED <<document, position, token, cancelledAt, hoveredWord, lineIdx, endLine,
                   definitionInfo, sourceDocument, includedFiles, incIdx,
                   potentialFiles, headerIdx, opened>>

\* one turn of the loop of findBlockComment
Walk ==
    /\ pc = "walk"
    /\ IF token
       THEN /\ ReturnHover(Undefined)
            /\ UNCHANGED <<commentLines, currentCommentLine, searchLines>>
       ELSE LET line == LineAt(sourceDocument, currentCommentLine)
                collected == <<line>> \o commentLines
            IN  /\ commentLines' = collected
                /\ IF Test(BLOCK_COMMENT_START_REGEX, Trim(line))
                   THEN /\ ReturnHover([defined |-> TRUE,
                                        text |-> cleanBlockComment(collected)])
                        /\ UNCHANGED <<currentCommentLine, searchLines>>
                   ELSE /\ currentCommentLine' = currentCommentLine - 1
                        /\ searchLines' = searchLines + 1
                        /\ IF WalkContinues(currentCommentLine - 1, searchLines + 1)
                           THEN UNCHANGED <<pc, blockComment, result>>
                           ELSE ReturnHover(Undefined)
    /\ UNCHANGED <<document, position, token, cancelledAt, hoveredWord, lineIdx, endLine,
                   definitionInfo, sourceDocument, includedFiles, incIdx,
                   potentialFiles, headerIdx, opened>>

\* the host raises the cancellation signal of the request
Cancel ==
    /\ pc # "done"
    /\ ~token
    /\ token' = TRUE
    /\ cancelledAt' = pc
    /\ UNCHANGED <<document, position, pc, hoveredWord, lineIdx, endLine,
                   definitionInfo, sourceDocument, blockComment, commentLines,
                   currentCommentLine, searchLines, includedFiles, incIdx,
                   potentialFiles, headerIdx, opened, result>>

Next ==
    \/ HoverStart
    \/ ScanLocal
    \/ CrossFile
    \/ FindFilesInclude
    \/ FindFilesSweep
    \/ HeaderLoop
    \/ ScanHeader
    \/ BlockComment
    \/ Walk
    \/ Cancel

Spec == Init /\ [][Next]_vars

\* ---------------------------------------------------------------- properties

\* the line i of the file f is a declaration of the word w
Declares(f, i, w) == MatchDefinition(LineAt(f, i), w, i).defined
\* the lines of the hovered document the bounded scan may read
Window == Max(0, position.line - MAX_LINES_TO_SCAN_UP)..position.line
\* the scan of the hovered document has returned a declaration
FoundLocally == definitionInfo.defined /\ opened = <<>>
\* a candidate file has yielded the declaration
FoundCrossFile == definitionInfo.defined /\ opened # <<>>
StartsWith(s, prefix) == OccursAt(s, prefix, 1)
\* the kinds of the sections of a tooltip, in order
Kinds(hover) == [i \in 1..Len(hover.contents) |-> hover.contents[i].kind]
HasKind(hover, kind) == \E i \in 1..Len(hover.contents) : hover.contents[i].kind = kind

\* C1: among the declarations of the hovered word in the window
\* [max(0, hoverLine - 100), hoverLine] of the hovered document, the bounded
\* scan returns the nearest preceding one: no line of the window below the
\* returned line declares the word
C1_NearestPreceding ==
    FoundLocally =>
        \A i \in Window : Declares(document.path, i, hoveredWord)
                            => i <= definitionInfo.lineNum

\* C2: a request whose cancellation signal was raised during the scan of the
\* hovered document, the search for candidates, the loop over them, the scan
\* of a header or the walk over the block comment returns nothing
C2_CancelledReturnsNothing ==
    (pc = "done" /\ cancelledAt \in {"scanLocal", "findFiles", "headerLoop",
                                      "scanHeader", "walk"})
        => result = Undefined

\* C3: the bounded scan reads no line of the hovered document below
\* hoverLine - 100 or above the hover line, it returns a declaration exactly
\* 100 lines above the hover line when it runs uncancelled, and never one
\* further above
C3_WindowBound ==
    /\ pc = "scanLocal" =>
          /\ lineIdx >= 0
          /\ lineIdx >= position.line - MAX_LINES_TO_SCAN_UP
          /\ lineIdx <= position.line
    /\ FoundLocally =>
          /\ definitionInfo.lineNum >= position.line - MAX_LINES_TO_SCAN_UP
          /\ definitionInfo.lineNum <= position.line
    /\ (/\ pc \notin {"start", "scanLocal"}
        /\ hoveredWord # <<>>
        /\ cancelledAt \notin {"start", "scanLocal"}
        /\ position.line >= MAX_LINES_TO_SCAN_UP
        /\ Declares(document.path, position.line - MAX_LINES_TO_SCAN_UP, hoveredWord))
       => FoundLocally

\* a declaration exactly 100 lines above the hover line has been returned
C3_Witness ==
    /\ FoundLocally
    /\ definitionInfo.lineNum = position.line - MAX_LINES_TO_SCAN_UP

\* the candidate f was found for an include directive of the hovered document
IncludeFound(f) ==
    \E k \in 1..Len(includedFiles) :
        Basename(includedFiles[k]) = Basename(FsPath(f))
\* the candidates are listed: findPotentialHeaderFiles has returned
CandidatesListed == pc \in {"headerLoop", "scanHeader"} \/ opened # <<>>
\* the first line of the file f that declares the word w
FirstDeclaration(f, w) ==
    CHOOSE i \in 0..(LineCount(f) - 1) :
        /\ Declares(f, i, w)
        /\ \A j \in 0..(i - 1) : ~Declares(f, j, w)
DeclaresSomewhere(f, w) == \E i \in 0..(LineCount(f) - 1) : Declares(f, i, w)

\* C4: the candidates are opened one at a time in list order, the files found
\* for an include directive before the files only the sweep contributes; the
\* declaration returned is the first matching line of the first opened
\* candidate that has one, and that candidate is the last one opened
C4_CandidateOrder ==
    /\ CandidatesListed =>
          /\ \A i, j \in 1..Len(potentialFiles) :
                (i < j /\ IncludeFound(potentialFiles[j]))
                    => IncludeFound(potentialFiles[i])
          /\ Len(opened) <= Len(potentialFiles)
          /\ \A k \in 1..Len(opened) : opened[k].file = potentialFiles[k]
          /\ pc = "scanHeader" => headerIdx = Len(opened)
    /\ FoundCrossFile =>
          LET last == Len(opened)
          IN  /\ opened[last].ok
              /\ sourceDocument = opened[last].file
              /\ definitionInfo.lineNum = FirstDeclaration(sourceDocument, hoveredWord)
              /\ \A k \in 1..(last - 1) :
                    opened[k].ok => ~DeclaresSomewhere(opened[k].file, hoveredWord)

\* a candidate found for an include directive and scanned without a match, the
\* declaration returned from the next candidate, a third candidate never opened
C4_Witness ==
    /\ pc = "done"
    /\ result.defined
    /\ Len(opened) = 2
    /\ opened[1].ok
    /\ IncludeFound(opened[1].file)
    /\ Len(potentialFiles) = 3
    /\ ~IncludeFound(potentialFiles[3])

\* the search ran with a workspace folder and was never cancelled
SearchedUncancelled ==
    /\ pc = "done"
    /\ cancelledAt = "never"
    /\ hoveredWord # <<>>
    /\ ~FoundLocally
    /\ HasWorkspaceFolder(document)

\* C5: a candidate that fails to open is skipped and the search goes on in list
\* order: an uncancelled search returns the declaration of the first candidate
\* that opened and declares the word, and returns nothing only when every
\* candidate was tried and each failed to open or declares nothing
C5_OpenFailureSkipped ==
    SearchedUncancelled =>
        LET good == {k \in 1..Len(opened) :
                        opened[k].ok /\ DeclaresSomewhere(opened[k].file, hoveredWord)}
        IN  /\ \A k \in 1..Len(opened) : opened[k].file = potentialFiles[k]
            /\ IF good = {}
               THEN /\ result = Undefined
                    /\ Len(opened) = Len(potentialFiles)
               ELSE /\ result.defined
                    /\ good = {Len(opened)}
                    /\ sourceDocument = opened[Len(opened)].file

\* the first candidate failed to open and a later one yielded the declaration
C5_Witness ==
    /\ SearchedUncancelled
    /\ result.defined
    /\ Len(opened) >= 2
    /\ ~opened[1].ok
    /\ DeclaresSomewhere(opened[1].file, hoveredWord)
    /\ sourceDocument = opened[Len(opened)].file

\* the line above the returned declaration passes the relaxed declaration test
AfterSibling ==
    /\ definitionInfo.defined
    /\ definitionInfo.lineNum > 0
    /\ Test(LIKELY_DEFINITION_REGEX,
            Trim(LineAt(sourceDocument, definitionInfo.lineNum - 1)))

\* C6: a declaration whose preceding line looks like a sibling declaration
\* never gets a block comment: the walk over the comment is not entered, no
\* comment is attached, and the tooltip has no block comment section
C6_NoCommentAfterSibling ==
    AfterSibling =>
        /\ pc # "walk"
        /\ ~blockComment.defined
        /\ (pc = "done" /\ result.defined) => ~HasKind(result, "markdown")

\* the second declaration of a run under a group comment, hovered: the tooltip
\* shows the type and the line comment only
C6_Witness ==
    /\ pc = "done"
    /\ AfterSibling
    /\ definitionInfo.lineNum >= 2
    /\ LineAt(sourceDocument, definitionInfo.lineNum - 2) = L_group
    /\ result.defined
    /\ Kinds(result) = <<"codeblock", "text">>

\* the file f is named by an include directive of the hovered document, no
\* other file of the workspace has that name, f declares the word w, and f
\* did not fail to open
Included(f, w) ==
    /\ \E k \in 1..Len(includedFiles) :
          Basename(includedFiles[k]) = Basename(FsPath(f))
    /\ \A g \in WorkspaceFiles :
          Basename(FsPath(g)) = Basename(FsPath(f)) => g = f
    /\ DeclaresSomewhere(f, w)
    /\ \A k \in 1..Len(opened) : opened[k].file = f => opened[k].ok
\* no file found for an include directive above the first one naming f
\* declares the word w
NoEarlierDeclaration(f, w) ==
    \A j \in 1..Len(includedFiles) :
        (\A i \in 1..j : Basename(includedFiles[i]) # Basename(FsPath(f)))
            => \A g \in GlobByName(Basename(includedFiles[j])) :
                  ~DeclaresSomewhere(g, w)
\* the tooltip is built from the first declaration of the hovered word in f:
\* the defining-file section for f first, the declared type as a code block
\* and the line comment as text last
ResolvedIn(f) ==
    LET d == MatchDefinition(
                LineAt(f, FirstDeclaration(f, hoveredWord)),
                hoveredWord, FirstDeclaration(f, hoveredWord))
        n == Len(result.contents)
    IN  /\ result.defined
        /\ sourceDocument = f
        /\ result.contents[1] = [kind |-> "definedIn", file |-> f]
        /\ IF d.lineComment # <<>>
           THEN /\ result.contents[n - 1] =
                      [kind |-> "codeblock", text |-> d.varType]
                /\ result.contents[n] =
                      [kind |-> "text", text |-> d.lineComment]
           ELSE result.contents[n] =
                      [kind |-> "codeblock", text |-> d.varType]

\* C8 as stated: nothing found in the hovered document, an include directive
\* for a header name, one file of that name in the workspace and the hovered
\* word declared in it: the tooltip (of a search that is not cancelled, the
\* header opening) is built from the declaration in that header
C8_AnyIncludeResolved ==
    SearchedUncancelled =>
        \A f \in WorkspaceFiles : Included(f, hoveredWord) => ResolvedIn(f)

\* C8, amended: the same, for a header no file of an earlier include
\* directive declares the hovered word before: the tooltip starts with the
\* defining-file section for that header and holds the declared type as a
\* code block, followed by the line comment as text
C8_IncludedHeaderResolved ==
    SearchedUncancelled =>
        \A f \in WorkspaceFiles :
            (Included(f, hoveredWord) /\ NoEarlierDeclaration(f, hoveredWord))
                => /\ \A i \in Window : ~Declares(document.path, i, hoveredWord)
                   /\ ResolvedIn(f)

\* ex1 of mst.ex1 = 7; hovered in main.c, which includes header.h: the
\* file section for header.h, the type int, the text Example 1
C8_Witness ==
    /\ SearchedUncancelled
    /\ document.lines = <<L_incHeader, L_useMst>>
    /\ hoveredWord = <<"e","x","1">>
    /\ result.defined
    /\ result.contents =
          <<[kind |-> "definedIn", file |-> "header.h"],
            [kind |-> "separator"],
            [kind |-> "codeblock", text |-> <<"i","n","t">>],
            [kind |-> "text", text |-> <<"E","x","a","m","p","l","e"," ","1">>]>>

\* the walk over the block comment above the returned declaration has begun
WalkBegun == pc = "walk" \/ commentLines # <<>>
\* a line whose trimmed text starts with /* lies within the first
\* MAX_BLOCK_COMMENT_LINES lines above the returned declaration
StartWithinCap ==
    \E k \in 1..Min(MAX_BLOCK_COMMENT_LINES, definitionInfo.lineNum) :
        StartsWith(Trim(LineAt(sourceDocument, definitionInfo.lineNum - k)),
                   <<"/","*">>)

\* C10: the walk begins only above a first-in-sequence declaration whose
\* preceding line ends (trimmed) with */, reads the lines upward one by one,
\* at most 50 of them and none below line 0, and a comment is attached only
\* from a line starting (trimmed) with /* among them; without such a line
\* no comment is attached and the tooltip is still built
C10_WalkCapped ==
    /\ WalkBegun =>
          /\ definitionInfo.lineNum > 0
          /\ ~AfterSibling
          /\ EndsWith(Trim(LineAt(sourceDocument, definitionInfo.lineNum - 1)),
                      <<"*","/">>)
          /\ Len(commentLines) <= MAX_BLOCK_COMMENT_LINES
          /\ Len(commentLines) <= definitionInfo.lineNum
          /\ \A k \in 1..Len(commentLines) :
                commentLines[k] =
                    LineAt(sourceDocument,
                           definitionInfo.lineNum - Len(commentLines) + k - 1)
    /\ pc = "walk" =>
          /\ currentCommentLine >= 0
          /\ currentCommentLine = definitionInfo.lineNum - 1 - Len(commentLines)
          /\ Len(commentLines) < MAX_BLOCK_COMMENT_LINES
    /\ blockComment.defined =>
          /\ WalkBegun
          /\ StartsWith(Trim(commentLines[1]), <<"/","*">>)
    /\ (pc = "done" /\ definitionInfo.defined /\ ~StartWithinCap) =>
          /\ ~blockComment.defined
          /\ result.defined

\* 50 lines read above a declaration further down, none of them a comment
\* start: no comment attached, the tooltip built
C10_Witness ==
    /\ pc = "done"
    /\ cancelledAt = "never"
    /\ Len(commentLines) = MAX_BLOCK_COMMENT_LINES
    /\ definitionInfo.lineNum > MAX_BLOCK_COMMENT_LINES
    /\ ~blockComment.defined
    /\ result.defined

\* ---------------------------------------------------------------- the declaration matcher alone

\* the longest identifier of the matcher's inputs
MaxNameLen == 2

\* the identifiers over a and b
Identifiers ==
    UNION {[1..n -> {"a", "b"}] : n \in 1..MaxNameLen}

\* lines put together from a type, an identifier, perhaps an array suffix, an
\* initializer, a terminator and a trailing comment
MatcherLines ==
    {ty \o <<" ">> \o name \o arr \o init \o term \o cmt :
        ty \in {<<"i","n","t">>, <<"i","n","t","*">>, <<"T","<">>,
                <<"T","<","b",">">>},
        name \in Identifiers,
        arr \in {<<>>, <<"[","2","]">>},
        init \in {<<>>, <<" ","="," ","b">>},
        term \in {<<>>, <<";">>},
        cmt \in {<<>>, <<" ","/","/"," ","A">>, <<"/","/",">"," ","b",";">>,
                 <<" ","/","/"," ","i","n","t"," ","b",";">>}}

InitMatch ==
    /\ \E line \in MatcherLines : document = [path |-> "main.c", lines |-> <<line>>]
    /\ position = [line |-> 0, character |-> 0]
    /\ hoveredWord \in Identifiers
    /\ commentLines = <<>>
    /\ pc = "match"
    /\ Fresh

\* the matcher applied to the line for the identifier
MatchStep ==
    /\ pc = "match"
    /\ definitionInfo' = MatchDefinition(LineAt(document.path, 0), hoveredWord, 0)
    /\ pc' = "matched"
    /\ UNCHANGED <<document, position, token, cancelledAt, hoveredWord, lineIdx,
                   endLine, sourceDocument, blockComment, commentLines,
                   currentCommentLine, searchLines, includedFiles, incIdx,
                   potentialFiles, headerIdx, opened, result>>

NextMatch == MatchStep

SpecMatch == InitMatch /\ [][NextMatch]_vars

\* C7: a line that matches as a declaration of one identifier matches as a
\* declaration of no other identifier
C7_ExactMatch ==
    (pc = "matched" /\ definitionInfo.defined) =>
        \A other \in Identifiers \ {hoveredWord} :
            ~MatchDefinition(LineAt(document.path, 0), other, 0).defined

\* ---------------------------------------------------------------- cleanBlockComment alone

\* the longest comment of the cleaner's inputs, in lines
MaxCommentLines == 3

\* /***/
L_stars == <<"/","*","*","*","/">>
\* foo
L_text == <<"f","o","o">>
\*  ** x
L_twoStars == <<" ","*","*"," ","x">>

CleanLines == {L_open, L_mid, L_close, L_group, L_empty, L_blank, L_stars,
               L_text, L_twoStars}

InitClean ==
    /\ commentLines \in UNION {[1..n -> CleanLines] : n \in 0..MaxCommentLines}
    /\ document = [path |-> "main.c", lines |-> <<L_blank>>]
    /\ position = [line |-> 0, character |-> 0]
    /\ hoveredWord = <<>>
    /\ pc = "clean"
    /\ Fresh

\* cleanBlockComment applied to the collected lines
CleanStep ==
    /\ pc = "clean"
    /\ blockComment' = [defined |-> TRUE, text |-> cleanBlockComment(commentLines)]
    /\ pc' = "cleaned"
    /\ UNCHANGED <<document, position, token, cancelledAt, hoveredWord, lineIdx,
                   endLine, definitionInfo, sourceDocument, commentLines,
                   currentCommentLine, searchLines, includedFiles, incIdx,
                   potentialFiles, headerIdx, opened, result>>

NextClean == CleanStep

SpecClean == InitClean /\ [][NextClean]_vars

\* a slash and the stars after it cut from the front of s
DropOpen(s) ==
    IF Len(s) >= 2 /\ s[1] = "/" /\ s[2] = "*"
    THEN LET stop == CHOOSE i \in 3..(Len(s) + 1) :
                        /\ \A j \in 2..(i - 1) : s[j] = "*"
                        /\ (i = Len(s) + 1 \/ s[i] # "*")
         IN  Sub(s, stop, Len(s) + 1)
    ELSE s
\* a slash and the stars before it cut from the end of s
DropClose(s) ==
    IF Len(s) >= 2 /\ s[Len(s)] = "/" /\ s[Len(s) - 1] = "*"
    THEN LET first == CHOOSE i \in 1..(Len(s) - 1) :
                        /\ \A j \in i..(Len(s) - 1) : s[j] = "*"
                        /\ (i = 1 \/ s[i - 1] # "*")
         IN  Sub(s, 1, first)
    ELSE s
\* one star, and the blanks before it, cut from the front of s
DropStar(s) ==
    IF TrimStart(s) # <<>> /\ TrimStart(s)[1] = "*" THEN Tail(TrimStart(s)) ELSE s
\* the i-th collected line, cleaned
Cleaned(lines, i) ==
    LET a == IF i = 1 THEN DropOpen(Trim(lines[i])) ELSE Trim(lines[i])
        b == IF i = Len(lines) THEN DropClose(a) ELSE a
    IN  Trim(DropStar(b))
NonEmpty(line) == line # <<>>
RECURSIVE SplitLines(_)
\* the lines of a text, split at its newlines
SplitLines(text) ==
    LET p == IndexOf(text, <<"\n">>, 0)
    IN  IF p = -1 THEN <<text>>
        ELSE <<Sub(text, 1, p + 1)>> \o SplitLines(Sub(text, p + 2, Len(text) + 1))

\* C9: the cleaned text is the collected lines, each trimmed, the first
\* without its leading /* run, the last without its trailing */ run, each
\* without one leading star, trimmed again, the empty ones dropped, joined
\* with newlines; /** foo, * bar, */ clean to foo\nbar; no line of the
\* cleaned text is empty
C9_Cleaned ==
    pc = "cleaned" =>
        LET expected ==
                SelectSeq([i \in 1..Len(commentLines) |-> Cleaned(commentLines, i)],
                          NonEmpty)
            text == blockComment.text
        IN  /\ IF expected = <<>> THEN text = <<>> ELSE SplitLines(text) = expected
            /\ text # <<>> =>
                  \A i \in 1..Len(SplitLines(text)) : SplitLines(text)[i] # <<>>
            /\ commentLines = <<L_open, L_mid, L_close>> =>
                  text = <<"f","o","o","\n","b","a","r">>

\* the three lines of the example, cleaned
C9_Witness ==
    /\ pc = "cleaned"
    /\ commentLines = <<L_open, L_mid, L_close>>
    /\ blockComment.text = <<"f","o","o","\n","b","a","r">>

\* ---------------------------------------------------------------- the candidate list and the external work

\* C11: no absolute path appears twice in the list of candidates, and no
\* file is opened twice within one request
C11_NoDuplicateCandidates ==
    /\ CandidatesListed =>
          \A i, j \in 1..Len(potentialFiles) :
              FsPath(potentialFiles[i]) = FsPath(potentialFiles[j]) => i = j
    /\ \A i, j \in 1..Len(opened) :
          FsPath(opened[i].file) = FsPath(opened[j].file) => i = j

\* C12: once the cancellation signal is raised the request issues no further
\* findFiles query and opens no further candidate; in particular a request
\* cancelled during the scan of the hovered document never starts the search
\* across files
C12_NoWorkAfterCancel ==
    [][token =>
          /\ ~(pc = "findFiles" /\ (incIdx' # incIdx \/ pc' # pc))
          /\ opened' = opened]_vars

\* C13: the hovered document is scanned only in the bounded window: no
\* candidate scanned in full is the hovered document, a declaration found
\* across files lives in another document, and a declaration of the hovered
\* document outside the window never becomes the one resolved
C13_ActiveOnlyInWindow ==
    /\ pc = "scanHeader" => potentialFiles[headerIdx] # document.path
    /\ FoundCrossFile => sourceDocument # document.path
    /\ (definitionInfo.defined /\ sourceDocument = document.path)
          => definitionInfo.lineNum \in Window

\* ---------------------------------------------------------------- the tooltip

IsSection(part) == part.kind # "newline"
\* the sections of a tooltip, the line breaks between them left out
Sections(hover) == SelectSeq(hover.contents, IsSection)
\* the section s when the condition holds, nothing otherwise
When(cond, s) == IF cond THEN <<s>> ELSE <<>>

\* C14: a returned tooltip holds, in this order, the defining-file line
\* exactly when the declaration's document is not the hovered one, the block
\* comment when it has text, the separator exactly when one of the two was
\* emitted, the type as a code block, and the line comment, when there is
\* one, right after the type; a request that resolved a declaration returns
\* a tooltip, because the type always has content, and a declaration without
\* any section with content would yield none
C14_SectionOrder ==
    pc = "done" =>
        /\ result.defined <=> definitionInfo.defined
        /\ definitionInfo.defined =>
              LET file == sourceDocument # document.path
                  block == blockComment.defined /\ blockComment.text # <<>>
              IN  /\ definitionInfo.varType # <<>>
                  /\ Sections(result) =
                        When(file, [kind |-> "definedIn", file |-> sourceDocument])
                        \o When(block, [kind |-> "markdown",
                                        text |-> blockComment.text])
                        \o When(file \/ block, [kind |-> "separator"])
                        \o <<[kind |-> "codeblock", text |-> definitionInfo.varType]>>
                        \o When(definitionInfo.lineComment # <<>>,
                                [kind |-> "text",
                                 text |-> definitionInfo.lineComment])
                  /\ Assemble(document, document.path,
                              [definitionInfo EXCEPT !.varType = <<>>],
                              Undefined) = Undefined

\* a declaration resolved in a header, under a block comment and with a line
\* comment: all five sections
C14_Witness ==
    /\ pc = "done"
    /\ result.defined
    /\ Kinds(result) = <<"definedIn", "newline", "markdown", "separator",
                         "codeblock", "text">>

\* ---------------------------------------------------------------- findPotentialHeaderFiles alone

\* the most include directives of a document given to findPotentialHeaderFiles
MaxIncludes == 18

\* #include "<path of f>"
IncludeLine(f) ==
    <<"#","i","n","c","l","u","d","e"," ","\"">> \o FsPath(f) \o <<"\"">>

\* main.c including the first n of the further source files, nothing in it
\* declaring the hovered word: provideHover about to call
\* findPotentialHeaderFiles
InitFiles ==
    /\ \E n \in 0..MaxIncludes :
          /\ document = [path |-> "main.c",
                         lines |-> [i \in 1..n |-> IncludeLine(Parts[i])]
                                   \o <<L_useMst>>]
          /\ position = [line |-> n, character |-> 0]
    /\ hoveredWord = <<"m","s","t">>
    /\ commentLines = <<>>
    /\ pc = "crossFile"
    /\ Fresh

NextFiles ==
    \/ CrossFile
    \/ FindFilesInclude
    \/ FindFilesSweep

SpecFiles == InitFiles /\ [][NextFiles]_vars

\* C15: the list of candidates of one request, which the loop of provideHover
\* opens one by one, never holds more than MAX_FILES_TO_SEARCH files,
\* whatever the number of include directives
C15_CandidatesCapped == Len(potentialFiles) <= MAX_FILES_TO_SEARCH

====
